---- MODULE Spec2Model ----
(***************************************************************************)
(* A model of opencl_gpusort.h: the chunk loader kernel                    *)
(* (gpusort_setup_chunk_rs), the in-chunk bitonic sort kernel              *)
(* (gpusort_single / run_gpusort_single), the inter-chunk merge kernel     *)
(* (gpusort_multi / run_gpusort_multi / gpusort_set_record) and the        *)
(* host-side pass schedules and merge rounds that drive them.              *)
(***************************************************************************)
EXTENDS Integers, Sequences, FiniteSets, TLC

(***************************************************************************)
(* Bounds of the model.                                                    *)
(***************************************************************************)
\* capacity (rows) of the chunk that is sorted in place
MaxRows == 4
\* sort keys are drawn from 0..MaxKey
MaxKey == 1
\* invocations of gpusort_single that are followed lane by lane
MaxPasses == 2
\* capacity (rows) of each chunk that is merged
MergeCap == 3
\* the merge rounds: sorted chunks of a job, rows of each
MaxChunks == 4
MaxChunkRows == 1
\* the largest window of resident chunks a job is given
MaxWindow == 8
\* the loader: capacity of the chunk, rows of a batch, lanes of a work group,
\* kernel invocations on one chunk
MaxCap == 2
MaxBatch == 2
MaxLocal == 2
MaxLoads == 1

(***************************************************************************)
(* Status codes of the StromError family.                                  *)
(***************************************************************************)
StromError_Success == "Success"
StromError_DataStoreNoSpace == "NoSpace"
StromError_Fault == "Fault"

NoRow == -1

(***************************************************************************)
(* Arithmetic helpers.                                                     *)
(***************************************************************************)
RECURSIVE Pow2(_)
Pow2(k) == IF k = 0 THEN 1 ELSE 2 * Pow2(k - 1)

\* least k with 2^k >= n
RECURSIVE Log2Ceil(_)
Log2Ceil(n) == IF n <= 1 THEN 0 ELSE 1 + Log2Ceil((n + 1) \div 2)

\* bitwise AND of two naturals
RECURSIVE BitAnd(_, _)
BitAnd(a, b) ==
    IF a = 0 \/ b = 0 THEN 0
    ELSE ((a % 2) * (b % 2)) + (2 * BitAnd(a \div 2, b \div 2))

Abs(i) == IF i < 0 THEN -i ELSE i

Perms(S) == {f \in [S -> S] : \A y \in S : \E x \in S : f[x] = y}

VARIABLES
    \* ---- the chunk under gpusort_single
    nrows,      \* kchunk->nrows
    keys,       \* row data of the chunk: row slot -> sort key
    results,    \* KERN_GPUSORT_RESULT_INDEX(kchunk): the index array
    kstatus,    \* KERN_GPUSORT_STATUS(kgsort)
    badRow,     \* the row whose comparison faults (NoRow: none)
    pass,       \* position of the running kernel invocation in the schedule
    laneDone,   \* lanes (get_global_id(0)) of this invocation that returned
    errSeen,    \* some lane's private errcode was set by the comparator
    nwrites,    \* writes to the status slot by the running invocation
    swapped,    \* some lane exchanged two index entries
    results0,   \* the index array before the first pass
    \* ---- the lanes of one invocation of gpusort_single, step by step
    passArg,    \* bitonic_unitsz of the running invocation (0: none yet)
    lane,       \* lane -> its position in run_gpusort_single, pos0, pos1, rv
    touched,    \* index entry -> the lanes that read or wrote it in this pass
    passStart,  \* the index array when the running invocation started
    \* ---- the chunk under gpusort_setup_chunk_rs
    capacity,   \* rows the chunk was sized for
    kcs_nrows,  \* kcs->nrows
    kcs_rows,   \* row slot -> the global record id stored there (NoRecId: none)
    kcs_index,  \* row slot -> its index entry (NoRow: never written)
    writers,    \* row slot -> the lanes that wrote it
    load_status,\* KERN_GPUSORT_STATUS(kgpusort)
    loads,      \* the kernel invocations: krs->nrows, local size, groups
    grp,        \* work group -> its position, kcs_offset, kcs_nitems, lanes done
    \* ---- the chunks under gpusort_multi
    xc,         \* x_chunk: nrows, keys of its rows, index array
    yc,         \* y_chunk
    zc,         \* z_chunk0 and z_chunk1: nrows, rows, index array
    mpass,      \* position of the running kernel invocation in the schedule
    mlaneDone,  \* lanes of this invocation that returned
    \* ---- the merge rounds of the host
    pending,    \* sorted runs that wait for a merge partner
    output,     \* runs produced in the running round
    rounds,     \* merge rounds completed
    chunks0,    \* the sorted chunks the job started from
    inflight,   \* the pairs dispatched to the accelerator and not yet merged
    window      \* chunks that may be resident on the accelerator at once

sortVars == <<nrows, keys, results, kstatus, badRow, pass, laneDone,
              errSeen, nwrites, swapped, results0>>

passVars == <<passArg, lane, touched, passStart>>

loadVars == <<capacity, kcs_nrows, kcs_rows, kcs_index, writers, load_status,
              loads, grp>>

mergeVars == <<xc, yc, zc, mpass, mlaneDone>>

orchVars == <<pending, output, rounds, chunks0, inflight, window>>

vars == <<sortVars, passVars, loadVars, mergeVars, orchVars>>

\* the parts of the state an operation of one component leaves alone
SortOnly == UNCHANGED <<passVars, loadVars, mergeVars, orchVars>>
PassOnly == UNCHANGED <<loadVars, mergeVars, orchVars>>
LoadOnly == UNCHANGED <<sortVars, passVars, mergeVars, orchVars>>
MergeOnly == UNCHANGED <<sortVars, passVars, loadVars, orchVars>>
OrchOnly == UNCHANGED <<sortVars, passVars, loadVars, mergeVars>>

\* a component that is not running: nothing loaded, sorted, merged or scheduled
PassIdle == passArg = 0 /\ lane = <<>> /\ touched = <<>> /\ passStart = <<>>
SortIdle ==
    /\ PassIdle
    /\ nrows = 0 /\ keys = <<>> /\ results = <<>> /\ results0 = <<>>
    /\ kstatus = "Success" /\ badRow = -1 /\ pass = 0 /\ laneDone = {}
    /\ errSeen = FALSE /\ nwrites = 0 /\ swapped = FALSE
LoadIdle ==
    /\ capacity = 0 /\ kcs_nrows = 0 /\ kcs_rows = <<>> /\ kcs_index = <<>>
    /\ writers = <<>> /\ load_status = "Success" /\ loads = <<>> /\ grp = <<>>
MergeIdle ==
    /\ xc = <<>> /\ yc = <<>> /\ zc = <<>> /\ mpass = 0 /\ mlaneDone = {}
OrchIdle ==
    /\ pending = <<>> /\ output = <<>> /\ rounds = 0 /\ chunks0 = <<>>
    /\ inflight = <<>> /\ window = 0

(***************************************************************************)
(* gpusort_comp: the comparator, generated per query.  It orders two rows  *)
(* by their keys and may set *errcode.                                     *)
(***************************************************************************)
gpusort_comp(kx, ky) == IF kx < ky THEN -1 ELSE IF kx > ky THEN 1 ELSE 0

(***************************************************************************)
(* The bitonic sort of one chunk.                                          *)
(***************************************************************************)
\* log2 of the length of the index array: the least power of two that holds
\* the chunk's capacity
SortLog == Log2Ceil(MaxRows)
SortN == Pow2(SortLog)
Lanes == 0 .. (SortN \div 2) - 1

\* the kernel argument bitonic_unitsz of each pass: -k is the reversing pass
\* of unit size 2^k, j the plain pass of unit size 2^j
RECURSIVE Down(_)
Down(j) == IF j = 0 THEN <<>> ELSE <<j>> \o Down(j - 1)

RECURSIVE Schedule(_)
Schedule(L) == IF L = 0 THEN <<>> ELSE Schedule(L - 1) \o <<-L>> \o Down(L - 1)

NumPasses == Len(Schedule(SortLog))

\* gpusort_single: decoding of bitonic_unitsz
Reversing(bitonic_unitsz) == bitonic_unitsz < 0
UnitSz(bitonic_unitsz) == Pow2(Abs(bitonic_unitsz))

\* run_gpusort_single: the two index entries of a lane
Idx0_m(threadID, unitsz) ==
    ((threadID \div (unitsz \div 2)) * (unitsz \div 2)) + (threadID % (unitsz \div 2))

Idx0(threadID, unitsz) ==
    ((threadID \div (unitsz \div 2)) * unitsz) + (threadID % (unitsz \div 2))

Idx1_m(idx0, reversing, unitsz) == idx0 + (unitsz \div 2)

Idx1(idx0, reversing, unitsz) ==
    LET unitMask == unitsz - 1
    IN  IF reversing
        THEN (idx0 - BitAnd(idx0, unitMask)) + (unitMask - BitAnd(idx0, unitMask))
        ELSE idx0 + (unitsz \div 2)

\* the early return of a lane whose partner lies beyond the live rows
LaneSkips_m(n, idx1) == n < idx1

LaneSkips(n, idx1) == n <= idx1

\* the swap condition
LaneSwaps_m(rv) == 0 <= rv

LaneSwaps(rv) == 0 < rv

\* one lane of one invocation of gpusort_single
SingleLane(t) ==
    /\ pass <= NumPasses
    /\ t \notin laneDone
    /\ LET arg == Schedule(SortLog)[pass]
           reversing == Reversing(arg)
           unitsz == UnitSz(arg)
           idx0 == Idx0(t, unitsz)
           idx1 == Idx1(idx0, reversing, unitsz)
       IN  IF LaneSkips(nrows, idx1)
           THEN UNCHANGED <<results, errSeen, swapped>>
           ELSE LET pos0 == results[idx0]
                    pos1 == results[idx1]
                    fault == badRow \in {pos0, pos1}
                IN  \E rv \in IF fault THEN {-1, 0, 1}
                              ELSE {gpusort_comp(keys[pos0], keys[pos1])} :
                      /\ errSeen' = (errSeen \/ fault)
                      /\ IF LaneSwaps(rv)
                         THEN /\ results' = [results EXCEPT ![idx0] = pos1,
                                                            ![idx1] = pos0]
                              /\ swapped' = TRUE
                         ELSE UNCHANGED <<results, swapped>>
    /\ laneDone' = laneDone \cup {t}
    \* the private errcode is dropped when the kernel returns: the status
    \* slot is not written
    /\ UNCHANGED <<nrows, keys, kstatus, badRow, pass, nwrites, results0>>
    /\ SortOnly

\* the host starts the next pass once every lane of the running one is done
\* and the status slot still reads Success
NextPass ==
    /\ pass <= NumPasses
    /\ laneDone = Lanes
    /\ kstatus = StromError_Success
    /\ pass' = pass + 1
    /\ laneDone' = {}
    /\ nwrites' = 0
    /\ UNCHANGED <<nrows, keys, results, kstatus, badRow, errSeen, swapped,
                   results0>>
    /\ SortOnly

SortCommon ==
    /\ PassIdle
    /\ nrows \in 0 .. MaxRows
    /\ keys \in [0 .. SortN -> 0 .. MaxKey]
    /\ \A s \in 0 .. SortN : s >= nrows => keys[s] = 0
    /\ \E p \in Perms(0 .. nrows - 1) :
          results = [i \in 0 .. SortN - 1 |-> IF i < nrows THEN p[i] ELSE SortN]
    /\ results0 = results
    /\ kstatus = StromError_Success
    /\ pass = 1
    /\ laneDone = {}
    /\ errSeen = FALSE
    /\ nwrites = 0
    /\ swapped = FALSE

IdentityIndex == \A i \in 0 .. nrows - 1 : results[i] = i

\* a comparator that never faults: the rows of a chunk in any key order under
\* the loader's identity index, or any index permutation over rows whose keys
\* ascend with the slot number
SortInit ==
    /\ LoadIdle /\ MergeIdle /\ OrchIdle
    /\ SortCommon
    /\ badRow = NoRow
    /\ \/ IdentityIndex
       \/ \A s \in 0 .. nrows - 2 : keys[s] <= keys[s + 1]

\* a comparator that faults on one row: a freshly loaded chunk
SortFaultInit ==
    /\ LoadIdle /\ MergeIdle /\ OrchIdle
    /\ SortCommon
    /\ badRow \in 0 .. nrows - 1
    /\ IdentityIndex

SortNext == (\E t \in Lanes : SingleLane(t)) \/ NextPass

SpecSort == SortInit /\ [][SortNext]_vars

SpecSortFault == SortFaultInit /\ [][SortNext]_vars

(***************************************************************************)
(* Properties of the bitonic sort.                                         *)
(***************************************************************************)
SortDone == pass = NumPasses + 1

IsPermutation(res, n) == {res[i] : i \in 0 .. n - 1} = 0 .. n - 1

NonDecreasing(res, n) ==
    \A i \in 0 .. n - 2 : gpusort_comp(keys[res[i]], keys[res[i + 1]]) <= 0

\* C1: after the canonical schedule of passes, with a comparator that did not
\* fault, the index prefix [0, nrows) is non-decreasing under the comparator
\* and is a permutation of [0, nrows), for every row count up to the capacity.
C1_SortedPermutation ==
    (SortDone /\ badRow = NoRow) =>
        /\ IsPermutation(results, nrows)
        /\ NonDecreasing(results, nrows)

\* a sort of a row count that is not a power of two, which started unsorted
\* and exchanged entries, has run all its passes
C1_Witness ==
    /\ SortDone /\ badRow = NoRow /\ nrows = 3 /\ swapped
    /\ ~NonDecreasing(results0, nrows)
    /\ \E i \in 0 .. nrows - 1 : results0[i] # i

\* C9: a chunk whose index prefix is already non-decreasing (ties included)
\* goes through the whole schedule without a swap and with its index array
\* unchanged.
C9_Idempotent ==
    (badRow = NoRow /\ NonDecreasing(results0, nrows)) =>
        (~swapped /\ results = results0)

\* a sorted chunk with two equal keys next to each other has been re-sorted
C9_Witness ==
    /\ SortDone /\ badRow = NoRow /\ nrows >= 3
    /\ NonDecreasing(results0, nrows)
    /\ \E i \in 0 .. nrows - 2 : keys[results0[i]] = keys[results0[i + 1]]
    /\ \E i \in 0 .. nrows - 2 : keys[results0[i]] < keys[results0[i + 1]]

\* C10: every invocation writes exactly one status value into the status slot
\* of its chunk, and an error code set by the comparator during a bitonic pass
\* reaches the status slot.
C10_StatusWritten ==
    (pass <= NumPasses /\ laneDone = Lanes) =>
        /\ nwrites = 1
        /\ errSeen => kstatus = StromError_Fault

\* C11: once the comparator has faulted in a pass, no later pass of that sort
\* is started, and a sort that has ended left its chunk fully ordered or
\* flagged Fault, never unordered with status Success.
C11_FaultAborts ==
    /\ ~(errSeen /\ pass <= NumPasses /\ laneDone = {})
    /\ SortDone => (NonDecreasing(results, nrows) \/ kstatus = StromError_Fault)

(***************************************************************************)
(* One invocation of gpusort_single lane by lane: each lane reads its two  *)
(* entries, compares, and writes them back one after the other, interleaved *)
(* with the other lanes.  The host may launch any unit size, reversing or   *)
(* not, and the comparator may answer anything.                             *)
(***************************************************************************)
\* values of bitonic_unitsz the host can pass for this index array
PassArgs == {a \in -SortLog .. SortLog : a # 0}

\* what a swapping lane writes to results[idx0] and to results[idx1]
Exchanged_m(pos0, pos1) == <<pos1, pos1>>

Exchanged(pos0, pos1) == <<pos1, pos0>>

LaneIdx0(t) == Idx0(t, UnitSz(passArg))
LaneIdx1(t) == Idx1(LaneIdx0(t), Reversing(passArg), UnitSz(passArg))

Touch(t, is) == [i \in DOMAIN touched |->
                   IF i \in is THEN touched[i] \cup {t} ELSE touched[i]]

\* the host launches an invocation once the one before it is complete
StartPass(a) ==
    /\ pass < MaxPasses
    /\ passArg = 0 \/ laneDone = Lanes
    /\ passArg' = a
    /\ lane' = [t \in Lanes |-> [pc |-> "start", pos0 |-> 0, pos1 |-> 0, rv |-> 0]]
    /\ touched' = [i \in DOMAIN touched |-> {}]
    /\ passStart' = results
    /\ pass' = pass + 1
    /\ laneDone' = {}
    /\ UNCHANGED <<nrows, keys, results, kstatus, badRow, errSeen, nwrites,
                   swapped, results0>>
    /\ PassOnly

\* the lane returns early, or reads results[idx0] and results[idx1]
LaneRead(t) ==
    /\ passArg # 0
    /\ lane[t].pc = "start"
    /\ IF LaneSkips(nrows, LaneIdx1(t))
       THEN /\ lane' = [lane EXCEPT ![t].pc = "done"]
            /\ laneDone' = laneDone \cup {t}
            /\ UNCHANGED touched
       ELSE /\ lane' = [lane EXCEPT ![t] = [pc |-> "read",
                                            pos0 |-> results[LaneIdx0(t)],
                                            pos1 |-> results[LaneIdx1(t)],
                                            rv |-> 0]]
            /\ touched' = Touch(t, {LaneIdx0(t), LaneIdx1(t)})
            /\ UNCHANGED laneDone
    /\ UNCHANGED <<passArg, passStart, nrows, keys, results, kstatus, badRow,
                   pass, errSeen, nwrites, swapped, results0>>
    /\ PassOnly

\* the comparator answers; a lane that swaps writes results[idx0]
LaneCompare(t) ==
    /\ lane[t].pc = "read"
    /\ \E rv \in {-1, 0, 1} :
          IF LaneSwaps(rv)
          THEN /\ results' = [results EXCEPT ![LaneIdx0(t)] =
                                  Exchanged(lane[t].pos0, lane[t].pos1)[1]]
               /\ lane' = [lane EXCEPT ![t].pc = "store", ![t].rv = rv]
               /\ touched' = Touch(t, {LaneIdx0(t)})
               /\ swapped' = TRUE
               /\ UNCHANGED laneDone
          ELSE /\ lane' = [lane EXCEPT ![t].pc = "done", ![t].rv = rv]
               /\ laneDone' = laneDone \cup {t}
               /\ UNCHANGED <<results, touched, swapped>>
    /\ UNCHANGED <<passArg, passStart, nrows, keys, kstatus, badRow, pass,
                   errSeen, nwrites, results0>>
    /\ PassOnly

\* the swapping lane writes results[idx1] and returns
LaneStore1(t) ==
    /\ lane[t].pc = "store"
    /\ results' = [results EXCEPT ![LaneIdx1(t)] =
                       Exchanged(lane[t].pos0, lane[t].pos1)[2]]
    /\ lane' = [lane EXCEPT ![t].pc = "done"]
    /\ touched' = Touch(t, {LaneIdx1(t)})
    /\ laneDone' = laneDone \cup {t}
    /\ UNCHANGED <<passArg, passStart, nrows, keys, kstatus, badRow, pass,
                   errSeen, nwrites, swapped, results0>>
    /\ PassOnly

\* a chunk as the loader leaves it; the row data plays no part, the
\* comparator answering anything
PassInit ==
    /\ LoadIdle /\ MergeIdle /\ OrchIdle
    /\ nrows \in 0 .. MaxRows
    /\ keys = [s \in 0 .. SortN |-> 0]
    /\ results = [i \in 0 .. SortN - 1 |-> IF i < nrows THEN i ELSE SortN]
    /\ results0 = results
    /\ kstatus = StromError_Success
    /\ badRow = NoRow
    /\ pass = 0
    /\ laneDone = {}
    /\ errSeen = FALSE
    /\ nwrites = 0
    /\ swapped = FALSE
    /\ passArg = 0
    /\ lane = [t \in Lanes |-> [pc |-> "done", pos0 |-> 0, pos1 |-> 0, rv |-> 0]]
    /\ touched = [i \in 0 .. SortN - 1 |-> {}]
    /\ passStart = results

PassNext ==
    \/ \E a \in PassArgs : StartPass(a)
    \/ \E t \in Lanes : LaneRead(t)
    \/ \E t \in Lanes : LaneCompare(t)
    \/ \E t \in Lanes : LaneStore1(t)

SpecPass == PassInit /\ [][PassNext]_vars

(***************************************************************************)
(* Properties of one invocation.                                           *)
(***************************************************************************)
PassComplete == passArg # 0 /\ laneDone = Lanes

\* the invocation run lane after lane, in lane order, with the comparator
\* results the lanes got
RECURSIVE SeqPass(_, _)
SeqPass(res, t) ==
    IF t \notin Lanes THEN res
    ELSE IF LaneSkips(nrows, LaneIdx1(t)) \/ ~LaneSwaps(lane[t].rv)
         THEN SeqPass(res, t + 1)
         ELSE SeqPass([res EXCEPT ![LaneIdx0(t)] = res[LaneIdx1(t)],
                                  ![LaneIdx1(t)] = res[LaneIdx0(t)]], t + 1)

\* C13: within one invocation no index entry is read or written by two
\* lanes, and however the lanes interleave the index array after the
\* invocation is the one the lanes produce run one after the other.
C13_LanesDisjoint ==
    /\ \A i \in DOMAIN touched : Cardinality(touched[i]) <= 1
    /\ PassComplete => results = SeqPass(passStart, 0)

\* an invocation over a full index array in which every lane swapped has ended
C13_Witness ==
    /\ PassComplete /\ nrows = SortN
    /\ \A t \in Lanes : lane[t].rv = 1
    /\ \A i \in DOMAIN touched : touched[i] # {}

\* C14: for every unit size u and every lane t of an invocation over a padded
\* index array of N >= u entries, idx0 = (t div (u/2))*u + (t mod (u/2)) and
\* its partner idx1 (idx0 + u/2, or the mirror image of idx0 within its unit
\* when reversing) satisfy idx0 < idx1 < N, lie in the same unit, and the
\* pairs of all the lanes partition [0, N).
C14_PairsPartition ==
    passArg # 0 =>
        LET u == UnitSz(passArg)
            rev == Reversing(passArg)
        IN  \A k \in 1 .. SortLog :
              LET N == Pow2(k)
                  ls == 0 .. (N \div 2) - 1
                  i0(t) == Idx0(t, u)
                  i1(t) == Idx1(i0(t), rev, u)
                  base(t) == (i0(t) \div u) * u
              IN  N >= u =>
                    /\ \A t \in ls :
                          /\ i0(t) = ((t \div (u \div 2)) * u) + (t % (u \div 2))
                          /\ i1(t) = IF rev THEN base(t) + ((u - 1) - (i0(t) - base(t)))
                                     ELSE i0(t) + (u \div 2)
                          /\ 0 <= i0(t) /\ i0(t) < i1(t) /\ i1(t) < N
                          /\ i0(t) \div u = i1(t) \div u
                    /\ \A t1, t2 \in ls :
                          t1 # t2 => {i0(t1), i1(t1)} \cap {i0(t2), i1(t2)} = {}
                    /\ UNION {{i0(t), i1(t)} : t \in ls} = 0 .. N - 1

\* the lanes of a reversing invocation of the largest unit size have read
\* their entries
C14_Witness ==
    /\ passArg = -SortLog /\ nrows = SortN
    /\ \A t \in Lanes : lane[t].pc = "read" /\ lane[t].pos1 = LaneIdx1(t)

\* C15: an invocation changes nothing but index entries below the row count:
\* the row data, the row count and the index entries from the row count on stay
\* as they are, and a lane whose partner lies at or beyond the row count
\* changes nothing.
C15_OnlyLivePrefix ==
    [][/\ keys' = keys
       /\ nrows' = nrows
       /\ \A i \in DOMAIN results : i >= nrows => results'[i] = results[i]
       /\ \A t \in Lanes :
             (lane' # lane /\ passArg' = passArg /\ lane'[t] # lane[t]
                  /\ LaneIdx1(t) >= nrows) => results' = results]_vars

\* a lane with its partner beyond the row count has returned while another
\* lane of the invocation swapped
C15_Witness ==
    /\ PassComplete /\ nrows = 3 /\ results # passStart
    /\ \E t \in Lanes : LaneIdx1(t) >= nrows

\* C20: after any sequence of invocations, of any unit sizes and reversing
\* flags and with any comparator results, the index prefix [0, nrows) holds the
\* values it held before the first invocation, each once.
C20_StillPermutation ==
    (passArg = 0 \/ laneDone = Lanes) =>
        /\ IsPermutation(results, nrows)
        /\ {results[i] : i \in 0 .. nrows - 1} = {results0[i] : i \in 0 .. nrows - 1}
        /\ \A i, j \in 0 .. nrows - 1 : i # j => results[i] # results[j]

\* two invocations have run and left the index prefix rearranged
C20_Witness ==
    /\ pass = MaxPasses /\ PassComplete /\ nrows >= 3
    /\ results # results0 /\ results # passStart /\ passStart # results0

(***************************************************************************)
(* The chunk loader, gpusort_setup_chunk_rs.                               *)
(***************************************************************************)
\* row slots the model keeps track of, beyond the capacity too
LoadSlots == 0 .. (MaxCap + (MaxLoads * (MaxBatch + MaxLocal)))

\* global record ids are <<row store number, row number>>; row stores are
\* numbered from 1
NoRecId == <<0, 0>>

\* values an uninitialised __local size_t may hold
LocalGarbage == 0 .. MaxBatch

\* size_t arithmetic wraps around; the model keeps 30 bits of it, which is
\* more than any lane number
SizeWrap(v) == IF v < 0 THEN v + Pow2(30) ELSE v

\* work groups of an invocation over nr rows with lsz lanes per group
GroupsFor(nr, lsz) == (nr + lsz - 1) \div lsz

\* kcs_nitems as lane 0 of a work group computes it; u is what the
\* uninitialised kcs_offset holds
ItemsOf(gid0, lsz, krs_nrows, u) ==
    IF gid0 + lsz < krs_nrows THEN lsz
    ELSE IF gid0 < krs_nrows THEN SizeWrap(krs_nrows - u)
    ELSE 0

\* the new value of kcs->nrows under the atomic update
AtomicUpdate(old, val) == BitAnd(old, val)

\* errcode of a lane when it reaches kern_writeback_error_status
LaneErrcode == StromError_DataStoreNoSpace

\* the index entry a lane stores for the row slot rindex it filled
IndexEntry_m(rindex, gid) == gid

IndexEntry(rindex, gid) == rindex

\* the host starts the kernel on a row store of nr rows, lsz lanes per work
\* group and ng work groups, once the invocation before it has finished
Launch(nr, lsz, ng) ==
    /\ Len(loads) < MaxLoads
    /\ \A k \in DOMAIN grp : grp[k].pc = "done"
    /\ ng \in {GroupsFor(nr, lsz), GroupsFor(nr, lsz) + 1}
    /\ loads' = Append(loads, [krs_nrows |-> nr, lsize |-> lsz, ngroups |-> ng])
    /\ grp' = [k \in DOMAIN grp \cup ({Len(loads) + 1} \X (0 .. ng - 1)) |->
                 IF k \in DOMAIN grp THEN grp[k]
                 ELSE [pc |-> "start", kcs_offset |-> 0, kcs_nitems |-> 0,
                       wrote |-> {}]]
    /\ UNCHANGED <<capacity, kcs_nrows, kcs_rows, kcs_index, writers,
                   load_status>>
    /\ LoadOnly

\* lane 0 of a work group: kcs_nitems, then the atomic update of kcs->nrows
Reserve(k) ==
    /\ grp[k].pc = "start"
    /\ LET ld == loads[k[1]]
           gid0 == k[2] * ld.lsize
       IN  \E u \in IF gid0 + ld.lsize < ld.krs_nrows \/ gid0 >= ld.krs_nrows
                    THEN {0} ELSE LocalGarbage :
             LET nitems == ItemsOf(gid0, ld.lsize, ld.krs_nrows, u)
             IN  /\ grp' = [grp EXCEPT ![k] = [pc |-> "reserved",
                                               kcs_offset |-> kcs_nrows,
                                               kcs_nitems |-> nitems,
                                               wrote |-> {}]]
                 /\ kcs_nrows' = AtomicUpdate(kcs_nrows, nitems)
    /\ UNCHANGED <<capacity, kcs_rows, kcs_index, writers, load_status, loads>>
    /\ LoadOnly

\* a lane past the barrier: kern_row_to_column stores its row, then the lane
\* stamps the record id and the index entry
LaneStore(k, lid) ==
    /\ grp[k].pc = "reserved"
    /\ lid \in (0 .. loads[k[1]].lsize - 1) \ grp[k].wrote
    /\ LET gid == (k[2] * loads[k[1]].lsize) + lid
           rindex == grp[k].kcs_offset + lid
       IN  IF lid < grp[k].kcs_nitems
           THEN /\ kcs_rows' = [kcs_rows EXCEPT ![rindex] = <<k[1], gid>>]
                /\ kcs_index' = [kcs_index EXCEPT ![rindex] =
                                     IndexEntry(rindex, gid)]
                /\ writers' = [writers EXCEPT ![rindex] = @ \cup {<<k[1], gid>>}]
           ELSE UNCHANGED <<kcs_rows, kcs_index, writers>>
    /\ grp' = [grp EXCEPT ![k].wrote = @ \cup {lid}]
    /\ UNCHANGED <<capacity, kcs_nrows, load_status, loads>>
    /\ LoadOnly

\* kern_writeback_error_status, once the lanes of the group are through
Writeback(k) ==
    /\ grp[k].pc = "reserved"
    /\ grp[k].wrote = 0 .. loads[k[1]].lsize - 1
    /\ load_status' = LaneErrcode
    /\ grp' = [grp EXCEPT ![k].pc = "done"]
    /\ UNCHANGED <<capacity, kcs_nrows, kcs_rows, kcs_index, writers, loads>>
    /\ LoadOnly

\* a chunk the host created empty
LoadInit ==
    /\ SortIdle /\ MergeIdle /\ OrchIdle
    /\ capacity \in 1 .. MaxCap
    /\ kcs_nrows = 0
    /\ kcs_rows = [s \in LoadSlots |-> NoRecId]
    /\ kcs_index = [s \in LoadSlots |-> NoRow]
    /\ writers = [s \in LoadSlots |-> {}]
    /\ load_status = StromError_Success
    /\ loads = <<>>
    /\ grp = <<>>

LoadNext ==
    \/ \E nr \in 1 .. MaxBatch, lsz \in 1 .. MaxLocal, ng \in 1 .. MaxBatch + 1 :
          Launch(nr, lsz, ng)
    \/ \E k \in DOMAIN grp : Reserve(k)
    \/ \E k \in DOMAIN grp, lid \in 0 .. MaxLocal - 1 : LaneStore(k, lid)
    \/ \E k \in DOMAIN grp : Writeback(k)

SpecLoad == LoadInit /\ [][LoadNext]_vars

(***************************************************************************)
(* Properties of the loader.                                               *)
(***************************************************************************)
Min(a, b) == IF a < b THEN a ELSE b

\* one invocation was started on the fresh chunk and all its groups are done
FirstLoadDone ==
    /\ Len(loads) = 1
    /\ \A k \in DOMAIN grp : grp[k].pc = "done"

\* the rows in the live slots of the chunk
Placed == {kcs_rows[s] : s \in 0 .. kcs_nrows - 1}

\* C3: a batch of B rows loaded into a chunk with room for R rows leaves
\* exactly the first min(B, R) rows of the batch in the chunk, each once; a
\* batch that fits a fresh chunk is placed whole.
C3_PrefixPlaced ==
    FirstLoadDone =>
        LET fit == Min(loads[1].krs_nrows, capacity)
        IN  /\ kcs_nrows = fit
            /\ Placed = {<<1, j>> : j \in 0 .. fit - 1}

\* the slot range a work group reserved
Range(k) == grp[k].kcs_offset .. (grp[k].kcs_offset + grp[k].kcs_nitems - 1)

\* C5: the slot ranges the work groups obtain from the atomic update are
\* pairwise disjoint, and no two lanes write the same row slot.
C5_DisjointRanges ==
    /\ \A k1, k2 \in DOMAIN grp :
          (k1 # k2 /\ grp[k1].pc # "start" /\ grp[k2].pc # "start") =>
              Range(k1) \cap Range(k2) = {}
    /\ \A s \in LoadSlots : Cardinality(writers[s]) <= 1

\* C6: the row count never exceeds the capacity and no row slot at or beyond
\* the capacity is written.
C6_WithinCapacity ==
    /\ kcs_nrows <= capacity
    /\ \A s \in LoadSlots : s >= capacity => writers[s] = {}

\* C7: the status of a load is Success when every row of the batch was placed
\* and NoSpace exactly when some rows did not fit, with the row count the
\* number of rows placed.
C7_LoadStatus ==
    FirstLoadDone =>
        /\ kcs_nrows = Min(loads[1].krs_nrows, capacity)
        /\ (loads[1].krs_nrows <= capacity) => load_status = StromError_Success
        /\ (loads[1].krs_nrows > capacity) =>
               load_status = StromError_DataStoreNoSpace

\* C19: after any sequence of loads the index entry of every row slot that
\* was written, the slots below the row count among them, is the slot number.
C19_IdentityIndex ==
    \A s \in LoadSlots :
        (writers[s] # {} \/ kcs_index[s] # NoRow) => kcs_index[s] = s

\* a load of two work groups has ended, and a slot was written by a lane
\* whose global id is not the slot number
C19_Witness ==
    /\ loads # <<>> /\ loads[1].ngroups >= 2
    /\ \A k \in DOMAIN grp : grp[k].pc = "done"
    /\ \E s \in LoadSlots : \E w \in writers[s] : w[2] # s /\ kcs_index[s] = s

(***************************************************************************)
(* The merge of two sorted chunks, gpusort_multi.  The routine is kept     *)
(* under "#if 0" in the source and is modelled as written, its misspelt    *)
(* identifiers (threaadID, x_result, result0, chunkDst) read as the names   *)
(* declared next to them.                                                  *)
(***************************************************************************)
MergeLog == Log2Ceil(MergeCap)
MergePad == Pow2(MergeLog)
MIdx == 0 .. MergePad - 1

NoRec == [src |-> "none", slot |-> 0]

\* the padded size the host derives from the two row counts, as a power of
\* two exponent: at least one pass is run
HostLog(nx, ny) == IF nx + ny <= 2 THEN 1 ELSE Log2Ceil(nx + ny)

\* the kernel argument mergesort_unitsz of each pass: the reversing pass over
\* the whole virtual array, then the unit sizes down to 2
MergeSchedule(L) == <<-L>> \o Down(L - 1)

MLanes == 0 .. (Pow2(HostLog(xc.nrows, yc.nrows)) \div 2) - 1

\* "cl_int N;" is read without ever being assigned.  Values it may hold: zero,
\* the size the host pads the two chunks to, and twice the length of an index
\* array
NValues == {0, Pow2(HostLog(xc.nrows, yc.nrows)), 2 * MergePad}

\* the virtual index array: x_results below N2, y_results from N2 on
VOk(N2, i) == IF i < N2 THEN i \in MIdx ELSE (i - N2) \in MIdx
VRead(xr, yr, N2, i) == IF i < N2 THEN xr[i] ELSE yr[i - N2]
VWrite(xr, yr, N2, i, v) ==
    IF i < N2 THEN <<[xr EXCEPT ![i] = v], yr>>
    ELSE <<xr, [yr EXCEPT ![i - N2] = v]>>

\* the chunk and the row a virtual row position stands for
SrcOf(pos, N2) == IF pos < N2 THEN "x" ELSE "y"
ChunkPos(pos, N2) == IF pos < N2 THEN pos ELSE pos - N2
KeyAt(src, slot) == IF src = "x" THEN xc.keys[slot] ELSE yc.keys[slot]

\* the renumbering of the reversing pass
Renumber(xr, yr, t, idx1, N, N2) ==
    LET j == idx1 - N2
        xr1 == IF xc.nrows <= t THEN [xr EXCEPT ![t] = N] ELSE xr
        yr1 == [yr EXCEPT ![j] = IF j < yc.nrows THEN yr[j] + N2 ELSE N]
    IN  <<xr1, yr1>>

\* does the lane exchange its two entries
MergeSwaps(pos0, pos1, N, N2) ==
    IF N <= pos1 THEN FALSE
    ELSE IF N <= pos0 THEN TRUE
    ELSE 0 < gpusort_comp(KeyAt(SrcOf(pos0, N2), ChunkPos(pos0, N2)),
                          KeyAt(SrcOf(pos1, N2), ChunkPos(pos1, N2)))

\* gpusort_set_record: the row count, index entry and row data of one output
\* position
SetRecord(z, xr, yr, index, N) ==
    LET N2 == N \div 2
        posSrc == VRead(xr, yr, N2, index)
        d == IF index < N2 THEN 0 ELSE 1
        chunkPosDst == IF index < N2 THEN index ELSE index - N2
        posPrev == VRead(xr, yr, N2, index - 1)
        flagLastPlus1 == ~(0 < chunkPosDst /\ N <= posPrev)
        nr == IF chunkPosDst = N2 - 1 /\ posSrc < N THEN N2
              ELSE IF N <= posSrc /\ flagLastPlus1 THEN chunkPosDst
              ELSE z[d].nrows
        ix == IF posSrc < N THEN chunkPosDst ELSE N
        rw == IF posSrc < N
              THEN [src |-> SrcOf(posSrc, N2), slot |-> ChunkPos(posSrc, N2)]
              ELSE z[d].rows[chunkPosDst]
    IN  [z EXCEPT ![d] = [nrows |-> nr,
                          rows |-> [z[d].rows EXCEPT ![chunkPosDst] = rw],
                          results |-> [z[d].results EXCEPT ![chunkPosDst] = ix]]]

\* the addresses gpusort_set_record touches lie inside the arrays
SetRecordOk(xr, yr, index, N) ==
    LET N2 == N \div 2
        posSrc == VRead(xr, yr, N2, index)
        chunkPosDst == IF index < N2 THEN index ELSE index - N2
    IN  /\ VOk(N2, index)
        /\ chunkPosDst \in MIdx
        /\ (posSrc < N) => ChunkPos(posSrc, N2) \in MIdx
        /\ (N <= posSrc /\ 0 < chunkPosDst) => VOk(N2, index - 1)

\* the memory after one lane of run_gpusort_multi that read N in its
\* uninitialised variable: <<x_results, y_results, z, in bounds>>
MultiLane(t, reversing, unitsz, N) ==
    LET N2 == N \div 2
        idx0 == Idx0(t, unitsz)
        idx1 == Idx1(idx0, reversing, unitsz)
        okA == (~reversing) \/ (t \in MIdx /\ (idx1 - N2) \in MIdx)
        mA == IF reversing /\ okA
              THEN Renumber(xc.results, yc.results, t, idx1, N, N2)
              ELSE <<xc.results, yc.results>>
        okB == okA /\ VOk(N2, idx0) /\ VOk(N2, idx1)
        pos0 == VRead(mA[1], mA[2], N2, idx0)
        pos1 == VRead(mA[1], mA[2], N2, idx1)
        okC == okB /\ ((pos1 < N /\ pos0 < N) =>
                          (ChunkPos(pos0, N2) \in MIdx /\ ChunkPos(pos1, N2) \in MIdx))
        mB == IF okC /\ MergeSwaps(pos0, pos1, N, N2)
              THEN LET w == VWrite(mA[1], mA[2], N2, idx0, pos1)
                   IN  VWrite(w[1], w[2], N2, idx1, pos0)
              ELSE mA
        okD == okC /\ (unitsz = 2 => SetRecordOk(mB[1], mB[2], idx0, N))
        z1 == IF okD /\ unitsz = 2 THEN SetRecord(zc, mB[1], mB[2], idx0, N) ELSE zc
        okE == okD /\ (unitsz = 2 => SetRecordOk(mB[1], mB[2], idx1, N))
        z2 == IF okE /\ unitsz = 2 THEN SetRecord(z1, mB[1], mB[2], idx1, N) ELSE z1
    IN  IF N2 <= t THEN <<xc.results, yc.results, zc, TRUE>>
        ELSE <<mB[1], mB[2], z2, okE>>

\* one lane of one invocation of gpusort_multi.  A lane that addresses memory
\* outside an index array is stopped there and leaves no trace.
MergeLane(t) ==
    /\ mpass <= Len(MergeSchedule(HostLog(xc.nrows, yc.nrows)))
    /\ t \in MLanes \ mlaneDone
    /\ LET arg == MergeSchedule(HostLog(xc.nrows, yc.nrows))[mpass]
       IN  \E N \in NValues :
             LET m == MultiLane(t, Reversing(arg), UnitSz(arg), N)
             IN  IF m[4]
                 THEN /\ xc' = [xc EXCEPT !.results = m[1]]
                      /\ yc' = [yc EXCEPT !.results = m[2]]
                      /\ zc' = m[3]
                 ELSE UNCHANGED <<xc, yc, zc>>
    /\ mlaneDone' = mlaneDone \cup {t}
    /\ UNCHANGED mpass
    /\ MergeOnly

\* the host starts the next pass once every lane of the running one is done
MergeNextPass ==
    /\ mpass <= Len(MergeSchedule(HostLog(xc.nrows, yc.nrows)))
    /\ mlaneDone = MLanes
    /\ mpass' = mpass + 1
    /\ mlaneDone' = {}
    /\ UNCHANGED <<xc, yc, zc>>
    /\ MergeOnly

\* a sorted chunk.  A chunk that is not full is as the bitonic sort leaves it:
\* any index prefix that orders its rows.  A full chunk is as an earlier merge
\* leaves it: the rows in key order under the identity index.
SortedChunks ==
    {c \in [nrows : 0 .. MergeCap, keys : [MIdx -> 0 .. MaxKey],
            results : [MIdx -> 0 .. MergePad]] :
        /\ \A s \in MIdx : s >= c.nrows => (c.keys[s] = 0 /\ c.results[s] = MergePad)
        /\ {c.results[i] : i \in 0 .. c.nrows - 1} = 0 .. c.nrows - 1
        /\ \A i \in 0 .. c.nrows - 2 :
              c.keys[c.results[i]] <= c.keys[c.results[i + 1]]
        /\ c.nrows = MergeCap => \A i \in 0 .. c.nrows - 1 : c.results[i] = i}

\* x_chunk has room left, y_chunk may be full
MergeInit ==
    /\ SortIdle /\ LoadIdle /\ OrchIdle
    /\ xc \in {c \in SortedChunks : c.nrows < MergeCap}
    /\ yc \in SortedChunks
    /\ zc = [d \in 0 .. 1 |-> [nrows |-> 0, rows |-> [s \in MIdx |-> NoRec],
                               results |-> [s \in MIdx |-> NoRow]]]
    /\ mpass = 1
    /\ mlaneDone = {}

MergeNext == (\E t \in 0 .. MergePad - 1 : MergeLane(t)) \/ MergeNextPass

SpecMerge == MergeInit /\ [][MergeNext]_vars

(***************************************************************************)
(* Properties of the merge.                                                *)
(***************************************************************************)
MergeDone ==
    /\ mpass > 0
    /\ mpass = Len(MergeSchedule(HostLog(xc.nrows, yc.nrows))) + 1

\* the rows of a destination in slot order
ZRows(d) == [i \in 1 .. zc[d].nrows |-> zc[d].rows[i - 1]]

InputRows ==
    {[src |-> "x", slot |-> s] : s \in 0 .. xc.nrows - 1}
        \cup {[src |-> "y", slot |-> s] : s \in 0 .. yc.nrows - 1}

\* C2: after the passes of a merge, z0 followed by z1 is sorted, holds the rows
\* of x and of y each once, and the two row counts add up to Nx + Ny.
C2_MergedSorted ==
    MergeDone =>
        LET zs == ZRows(0) \o ZRows(1)
        IN  /\ Len(zs) = xc.nrows + yc.nrows
            /\ {zs[i] : i \in 1 .. Len(zs)} = InputRows
            /\ \A i \in 1 .. Len(zs) - 1 :
                  KeyAt(zs[i].src, zs[i].slot) <= KeyAt(zs[i + 1].src, zs[i + 1].slot)

\* C8: no sentinel index value sits below the row count: during and after the
\* bitonic sort of a chunk, and in the destinations after a merge, every index
\* entry at a position in [0, row count) refers to a real row.
C8_NoSentinelInPrefix ==
    /\ \A i \in 0 .. nrows - 1 : results[i] \in 0 .. nrows - 1
    /\ MergeDone =>
          \A d \in DOMAIN zc : \A p \in 0 .. zc[d].nrows - 1 :
              /\ zc[d].results[p] \in 0 .. zc[d].nrows - 1
              /\ zc[d].rows[zc[d].results[p]] # NoRec

\* C16: after a merge each destination's row count is the number of rows
\* placed in it, and the rows fill z0 up to its capacity before z1: z0 holds
\* min(Nx + Ny, capacity) rows and z1 the rest.
C16_RowCounts ==
    MergeDone =>
        /\ \A d \in DOMAIN zc :
              zc[d].nrows = Cardinality({p \in MIdx : zc[d].rows[p] # NoRec})
        /\ zc[0].nrows = Min(xc.nrows + yc.nrows, MergeCap)
        /\ zc[1].nrows = (xc.nrows + yc.nrows) - zc[0].nrows

\* C17: in the output of a merge a row of x comes before every row of y that
\* compares equal to it.
C17_TiesFavourX ==
    MergeDone =>
        LET zs == ZRows(0) \o ZRows(1)
        IN  \A i, j \in 1 .. Len(zs) :
              (i < j /\ zs[i].src = "y" /\ zs[j].src = "x"
                     /\ zs[i] \in InputRows /\ zs[j] \in InputRows) =>
                  gpusort_comp(KeyAt("x", zs[j].slot), KeyAt("y", zs[i].slot)) # 0

(***************************************************************************)
(* The merge rounds of the host.  The source holds the job's work lists    *)
(* (in_chunk1, in_chunk2, work_chunk of pgstrom_gpusort) and nothing of    *)
(* the code that drives them: the rounds follow the design description.    *)
(***************************************************************************)
\* a row of a run: <<key, chunk it was loaded into, slot there>>
\* the merge of two sorted runs; of two equal rows the one of x goes first
RECURSIVE MergeRuns(_, _)
MergeRuns_m(x, y) == x \o y

MergeRuns(x, y) ==
    IF x = <<>> THEN y
    ELSE IF y = <<>> THEN x
    ELSE IF Head(y)[1] < Head(x)[1] THEN <<Head(y)>> \o MergeRuns(x, Tail(y))
    ELSE <<Head(x)>> \o MergeRuns(Tail(x), y)

\* chunks a dispatched pair keeps on the accelerator: x, y, z1 and z2
ChunksPerPair == 4

Resident == ChunksPerPair * Len(inflight)

\* the window budget: one more pair fits next to the n pairs in flight
WithinWindow_m(n, w) == 2 * (n + 1) <= w

WithinWindow(n, w) == ChunksPerPair * (n + 1) <= w

\* the first two pending runs are dispatched as a pair, window permitting
DispatchPair ==
    /\ Len(pending) >= 2
    /\ WithinWindow(Len(inflight), window)
    /\ inflight' = Append(inflight, <<pending[1], pending[2]>>)
    /\ pending' = Tail(Tail(pending))
    /\ UNCHANGED <<output, rounds, chunks0, window>>
    /\ OrchOnly

\* a dispatched pair is merged: its result joins the output list and its
\* chunks leave the accelerator.  The host collects the pairs in the order it
\* dispatched them.
CompletePair ==
    /\ inflight # <<>>
    /\ output' = Append(output, MergeRuns(Head(inflight)[1], Head(inflight)[2]))
    /\ inflight' = Tail(inflight)
    /\ UNCHANGED <<pending, rounds, chunks0, window>>
    /\ OrchOnly

\* the run left without a partner goes to the output list as it is
CarryOver_m ==
    /\ Len(pending) = 1
    /\ output # <<>> \/ inflight # <<>>
    /\ WithinWindow(Len(inflight), window)
    /\ inflight' = Append(inflight, <<pending[1], <<>>>>)
    /\ pending' = <<>>
    /\ UNCHANGED <<output, rounds, chunks0, window>>
    /\ OrchOnly

CarryOver ==
    /\ Len(pending) = 1
    /\ output # <<>> \/ inflight # <<>>
    /\ output' = Append(output, pending[1])
    /\ pending' = <<>>
    /\ UNCHANGED <<rounds, chunks0, inflight, window>>
    /\ OrchOnly

\* the output of a round is the pending list of the next
NextRound ==
    /\ pending = <<>>
    /\ inflight = <<>>
    /\ output # <<>>
    /\ pending' = output
    /\ output' = <<>>
    /\ rounds' = rounds + 1
    /\ UNCHANGED <<chunks0, inflight, window>>
    /\ OrchOnly

\* key sequences of n rows in ascending order
AscendingKeys(n) ==
    {k \in [1 .. n -> 0 .. MaxKey] : \A i \in 1 .. n - 1 : k[i] <= k[i + 1]}

OrchInit ==
    /\ SortIdle /\ LoadIdle /\ MergeIdle
    /\ \E C \in 1 .. MaxChunks :
         \E len \in [1 .. C -> 1 .. MaxChunkRows] :
           \E ks \in [1 .. C -> UNION {AscendingKeys(n) : n \in 1 .. MaxChunkRows}] :
             /\ \A c \in 1 .. C : Len(ks[c]) = len[c]
             /\ chunks0 = [c \in 1 .. C |->
                             [j \in 1 .. len[c] |-> <<ks[c][j], c, j - 1>>]]
    /\ pending = chunks0
    /\ output = <<>>
    /\ rounds = 0
    /\ inflight = <<>>
    \* a window of whole pairs
    /\ window \in {w \in ChunksPerPair .. MaxWindow : w % ChunksPerPair = 0}

OrchNext == DispatchPair \/ CompletePair \/ CarryOver \/ NextRound

SpecOrch == OrchInit /\ [][OrchNext]_vars

(***************************************************************************)
(* Properties of the merge rounds.                                         *)
(***************************************************************************)
OrchDone == Len(pending) = 1 /\ output = <<>> /\ inflight = <<>>

RECURSIVE Flatten(_)
Flatten(ss) == IF ss = <<>> THEN <<>> ELSE Head(ss) \o Flatten(Tail(ss))

C12_WindowBound == Resident <= window

\* two pairs are in flight and fill the window
C12_Witness == Len(inflight) = 2 /\ Resident = window /\ Len(chunks0) >= 4

\* C18: the chunk left over in an odd round is not dispatched; it joins the
\* output of the round as it is, and no pair in flight has an empty partner.
C18_LeftoverUntouched ==
    [][/\ (Len(pending) = 1 /\ pending' # pending) =>
             (inflight' = inflight /\ output' = Append(output, pending[1]))
       /\ \A i \in DOMAIN inflight' :
             inflight'[i][1] # <<>> /\ inflight'[i][2] # <<>>]_vars

\* the third of three chunks has come through the first round unchanged
C18_Witness ==
    /\ Len(chunks0) = 3 /\ rounds = 1 /\ Len(pending) = 2
    /\ \E i \in DOMAIN pending : pending[i] = chunks0[3]

====
